---- MODULE Spec2Model ----
(***************************************************************************)
(* State-machine model of the two Selenium scrapers of the repository:     *)
(*   src/src/scrape_lunchcheck.py  (extract_page_data, scrape_lunchcheck)  *)
(*   src/src/scrape_freedreams.py  (scrape_freedreams_hotels)              *)
(* and of the name matching of src/src/merge_datasets.py                   *)
(*   (process_freedreams_row, the chunked loop of main).                   *)
(* The browser and the remote site are the environment: every wait of the  *)
(* code is a step whose outcome (found, timeout, stale reference, other    *)
(* error) is chosen by the environment.  The remote pager is a window of   *)
(* page-number links plus an ellipsis control.                             *)
(***************************************************************************)
EXTENDS Integers, Sequences, FiniteSets, TLC

\* ------------------------------------------------------------------ bounds
\* Largest number of pages of the remote listing.
MaxPages == 4
\* Largest number of page-number links the pager shows at once.
MaxWindow == 3
\* Largest positive page cap given as max_pages.
MaxCap == 3
\* Largest page the server shows right after the initial navigation.
MaxStart == 2
\* Largest number of rows of a page handed to extract_page_data on its own.
MaxRows == 2

\* Largest number of rows of the freedreams table handed to main's loop.
MaxHotels == 3
\* Largest number of rows of the lunchcheck table.
MaxRestaurants == 2
\* Largest positive value of --n-jobs.
MaxJobs == 3

\* range(3) of the click loop.
MaxAttempts == 3

\* The waits between the click and the increment of the counter (lines
\* 334-342): staleness of the old table, presence of the table, presence of
\* its rows.
ConfirmationWaits == 3

\* ------------------------------------------------------- remote page content
\* A cell text is a number; 0 is the empty string (after strip()).
\* A raw row is [cls: set of class words, cells: sequence of cell texts].
Cell(p, r, i) == p * 1000 + r * 100 + i

DataRow(p, r, c) ==
    [cls |-> {}, cells |-> [i \in 1..c |-> Cell(p, r, i)]]

PagerRow(p, r, c) ==
    [cls |-> {"pager"}, cells |-> [i \in 1..c |-> Cell(p, r, i)]]

\* A row of a recognised width whose name cell (0-based offset c - 11) is empty.
NoNameRow(p, r, c) ==
    [cls |-> {}, cells |-> [i \in 1..c |-> IF i = c - 10 THEN 0 ELSE Cell(p, r, i)]]

\* The rows the server renders for page p: the table width varies with the
\* page, every page ends with the pager row, odd pages carry a second data
\* row, even pages a row of an unrecognised width; the third row lacks a name.
PageRows(p) ==
    << DataRow(p, 1, 13 + 2 * (p % 5)),
       IF p % 2 = 1 THEN DataRow(p, 2, 13 + 2 * ((p + 2) % 5))
                    ELSE DataRow(p, 2, 14),
       NoNameRow(p, 3, 15),
       PagerRow(p, 4, 13) >>

\* Rows for calls of extract_page_data on their own.  Cell counts run from
\* one below the narrowest recognised table to one above the widest; a cell
\* whose text cannot be read is an empty cell (lines 68-74).
Widths == 12..22

Shapes == {"full", "no_name", "no_address", "name_only", "empty"}

\* Which cells (1-based position i) of a row of c cells are empty.
Blank(shape, c, i) ==
    CASE shape = "full" -> FALSE
      [] shape = "no_name" -> i = c - 10
      [] shape = "no_address" -> i = c - 9
      [] shape = "name_only" -> i # c - 10
      [] OTHER -> TRUE

RawRow(c, shape, cls) ==
    [cls |-> cls,
     cells |-> [i \in 1..c |-> IF Blank(shape, c, i) THEN 0 ELSE Cell(0, c, i)]]

RawRows ==
    { RawRow(c, shape, {}) : c \in Widths, shape \in Shapes }
        \cup { RawRow(c, "full", {"pager"}) : c \in Widths }

\* presence_of_all_elements_located gives at least one row.
RawPages == UNION { [1..n -> RawRows] : n \in 1..MaxRows }

\* ------------------------------------------------------- extract_page_data
\* col_contents[k] of the code (0-based).
At(col_contents, k) == col_contents[k + 1]

\* The record with the ZIP code and the city taken from each other's cell.
RestaurantSwapped(col_contents, o) ==
    [RestaurantName |-> At(col_contents, o),
     Address        |-> At(col_contents, o + 1),
     ZIPCode        |-> At(col_contents, o + 3),
     City           |-> At(col_contents, o + 2),
     Canton         |-> At(col_contents, o + 4),
     Phone          |-> At(col_contents, o + 5)]

\* Lines 84-91 (and 94-131): the dict a row of a recognised width appends.
Restaurant(col_contents, o) ==
    [RestaurantName |-> At(col_contents, o),
     Address        |-> At(col_contents, o + 1),
     ZIPCode        |-> At(col_contents, o + 2),
     City           |-> At(col_contents, o + 3),
     Canton         |-> At(col_contents, o + 4),
     Phone          |-> At(col_contents, o + 5)]

\* The classification reading any wider table as the 13-column layout.
RowRecordsLoose(col_contents) ==
    IF \A i \in 1..Len(col_contents) : col_contents[i] = 0 THEN << >>
    ELSE IF Len(col_contents) = 13 THEN
        IF At(col_contents, 2) # 0 /\ At(col_contents, 3) # 0
        THEN << Restaurant(col_contents, 2) >> ELSE << >>
    ELSE IF Len(col_contents) = 15 THEN
        IF At(col_contents, 4) # 0 /\ At(col_contents, 5) # 0
        THEN << Restaurant(col_contents, 4) >> ELSE << >>
    ELSE IF Len(col_contents) = 17 THEN
        IF At(col_contents, 6) # 0 /\ At(col_contents, 7) # 0
        THEN << Restaurant(col_contents, 6) >> ELSE << >>
    ELSE IF Len(col_contents) = 19 THEN
        IF At(col_contents, 8) # 0 /\ At(col_contents, 9) # 0
        THEN << Restaurant(col_contents, 8) >> ELSE << >>
    ELSE IF Len(col_contents) = 21 THEN
        IF At(col_contents, 10) # 0 /\ At(col_contents, 11) # 0
        THEN << Restaurant(col_contents, 10) >> ELSE << >>
    ELSE IF Len(col_contents) > 13 THEN << Restaurant(col_contents, 2) >>
    ELSE << >>

\* The classification asking for the name only.
RowRecordsNameOnly(col_contents) ==
    IF \A i \in 1..Len(col_contents) : col_contents[i] = 0 THEN << >>
    ELSE IF Len(col_contents) = 13 THEN
        IF At(col_contents, 2) # 0
        THEN << Restaurant(col_contents, 2) >> ELSE << >>
    ELSE IF Len(col_contents) = 15 THEN
        IF At(col_contents, 4) # 0
        THEN << Restaurant(col_contents, 4) >> ELSE << >>
    ELSE IF Len(col_contents) = 17 THEN
        IF At(col_contents, 6) # 0
        THEN << Restaurant(col_contents, 6) >> ELSE << >>
    ELSE IF Len(col_contents) = 19 THEN
        IF At(col_contents, 8) # 0
        THEN << Restaurant(col_contents, 8) >> ELSE << >>
    ELSE IF Len(col_contents) = 21 THEN
        IF At(col_contents, 10) # 0
        THEN << Restaurant(col_contents, 10) >> ELSE << >>
    ELSE << >>

\* Lines 76-135: what one row appends to restaurants_on_page.
RowRecords(col_contents) ==
    IF \A i \in 1..Len(col_contents) : col_contents[i] = 0 THEN << >>
    ELSE IF Len(col_contents) = 13 THEN
        IF At(col_contents, 2) # 0 /\ At(col_contents, 3) # 0
        THEN << Restaurant(col_contents, 2) >> ELSE << >>
    ELSE IF Len(col_contents) = 15 THEN
        IF At(col_contents, 4) # 0 /\ At(col_contents, 5) # 0
        THEN << Restaurant(col_contents, 4) >> ELSE << >>
    ELSE IF Len(col_contents) = 17 THEN
        IF At(col_contents, 6) # 0 /\ At(col_contents, 7) # 0
        THEN << Restaurant(col_contents, 6) >> ELSE << >>
    ELSE IF Len(col_contents) = 19 THEN
        IF At(col_contents, 8) # 0 /\ At(col_contents, 9) # 0
        THEN << Restaurant(col_contents, 8) >> ELSE << >>
    ELSE IF Len(col_contents) = 21 THEN
        IF At(col_contents, 10) # 0 /\ At(col_contents, 11) # 0
        THEN << Restaurant(col_contents, 10) >> ELSE << >>
    ELSE << >>

\* The row loop putting each row's record in front of the earlier ones.
RECURSIVE RowLoopPrepending(_, _, _)
RowLoopPrepending(rows, k, faulty) ==
    IF k > Len(rows) THEN << >>
    ELSE RowLoopPrepending(rows, k + 1, faulty) \o
         (IF k \in faulty THEN << >>
          ELSE IF "pager" \in rows[k].cls THEN << >>
          ELSE RowRecords(rows[k].cells))

\* The row loop ended by the first row whose processing raises.
RECURSIVE RowLoopAborting(_, _, _)
RowLoopAborting(rows, k, faulty) ==
    IF k > Len(rows) THEN << >>
    ELSE IF k \in faulty THEN << >>
    ELSE (IF "pager" \in rows[k].cls THEN << >>
          ELSE RowRecords(rows[k].cells))
         \o RowLoopAborting(rows, k + 1, faulty)

\* Lines 57-145: the loop over the rows.  faulty is the set of row positions
\* whose processing raises (stale reference, missing element, other error).
RECURSIVE RowLoop(_, _, _)
RowLoop(rows, k, faulty) ==
    IF k > Len(rows) THEN << >>
    ELSE (IF k \in faulty THEN << >>
          ELSE IF "pager" \in rows[k].cls THEN << >>
          ELSE RowRecords(rows[k].cells))
         \o RowLoop(rows, k + 1, faulty)

\* The page-level handler forgetting to leave the rows out.
extract_page_data_anyway(rows, timedOut, faulty) == RowLoop(rows, 1, faulty)

\* Lines 39-152: the value extract_page_data returns.  timedOut: the wait for
\* the table rows raised TimeoutException (or any other error), caught at
\* lines 147-150.
extract_page_data(rows, timedOut, faulty) ==
    IF timedOut THEN << >> ELSE RowLoop(rows, 1, faulty)

\* Lines 132-135: the row reaches the else branch that prints "Skipping row
\* with unexpected column count".
UnexpectedCount(col_contents) ==
    /\ ~ (\A i \in 1..Len(col_contents) : col_contents[i] = 0)
    /\ Len(col_contents) \notin {13, 15, 17, 19, 21}

\* Lines 39-152: the number of those messages one call prints.
SkippedRows(rows, timedOut, faulty) ==
    IF timedOut THEN 0
    ELSE Cardinality({ k \in 1..Len(rows) :
                        /\ k \notin faulty
                        /\ "pager" \notin rows[k].cls
                        /\ UnexpectedCount(rows[k].cells) })

\* ------------------------------------------------------------------- state
VARIABLES
    prog,                    \* which scraper runs: "lunchcheck" or "freedreams"
    pc,                      \* position of the run in the function body
    exc,                     \* exception in flight ("none" when there is none)
    stop,                    \* why the page loop was left ("none" while inside)
    max_pages,               \* argument max_pages
    current_page_number,     \* local of scrape_lunchcheck (0 before line 223)
    next_page_to_click,      \* local of scrape_lunchcheck
    next_page_link_element,  \* TRUE when the local holds an element, FALSE for None
    pagination_advanced,     \* local of scrape_lunchcheck
    attempt,                 \* loop variable of the click loop
    all_restaurants,         \* accumulator of scrape_lunchcheck
    session,                 \* browser session: "none", "open", "closed"
    quitCount,               \* number of driver.quit() calls
    csv,                     \* output file: whether to_csv ran, and the rows it wrote
    numPages,                \* pages of the remote listing
    window,                  \* page-number links the pager shows at once
    serverPage,              \* page the server currently displays
    honest,                  \* no wait failed for an element that was there
    linkMisses,              \* sequential-link searches that found no link
    extracted,               \* per extract_page_data call: counter value and page shown
    iter,                    \* what the current loop iteration has done so far
    all_hotels,              \* accumulator of scrape_freedreams_hotels
    page,                    \* loop variable of scrape_freedreams_hotels
    page_size_selects,       \* number of select_by_value("500") calls
    current_selection_value, \* local of scrape_lunchcheck ("none" before line 195)
    page_rows,               \* rows handed to one call of extract_page_data
    row_faults,              \* that call's faults: the page-level wait, the rows
                             \* (in scrape_freedreams_hotels: the hotel items
                             \* of the page whose parsing raised)
    restaurants_on_page,     \* that call's return value
    skipped_rows,            \* that call's "unexpected column count" messages
    freedreams_df,           \* merge_datasets: the hotel_name column of the freedreams table
    df_lunchcheck,           \* merge_datasets: the restaurant_name column of the lunchcheck table
    restaurant_match_score,  \* merge_datasets: the minimum score of a match
    n_jobs,                  \* merge_datasets: argument --n-jobs
    cpu_count,               \* merge_datasets: os.cpu_count() (0 for None)
    chunk_i,                 \* merge_datasets: loop variable i of the chunk loop
    all_matches_for_file,    \* merge_datasets: the matches collected so far
    processed                \* merge_datasets: positions of the rows handed to
                             \* process_freedreams_row, in the order of the calls

loc == << current_page_number, next_page_to_click, next_page_link_element,
          pagination_advanced, attempt >>
res == << session, quitCount, csv >>
cfg == << prog, max_pages, numPages, window >>
vars == << prog, pc, exc, stop, max_pages, current_page_number, next_page_to_click,
           next_page_link_element, pagination_advanced, attempt, all_restaurants,
           session, quitCount, csv, numPages, window, serverPage, honest,
           linkMisses, extracted, iter, all_hotels, page, page_size_selects,
           current_selection_value,
           page_rows, row_faults, restaurants_on_page, skipped_rows,
           freedreams_df, df_lunchcheck, restaurant_match_score, n_jobs,
           cpu_count, chunk_i, all_matches_for_file, processed >>
fd == << all_hotels, page >>
call == << page_rows, row_faults, restaurants_on_page, skipped_rows >>
size == << page_size_selects, current_selection_value >>
merge == << freedreams_df, df_lunchcheck, restaurant_match_score, n_jobs,
           cpu_count, chunk_i, all_matches_for_file, processed >>

\* The variables of merge_datasets while a scraper runs.
NoMerge ==
    /\ freedreams_df = << >>
    /\ df_lunchcheck = << >>
    /\ restaurant_match_score = 0
    /\ n_jobs = -1
    /\ cpu_count = 0
    /\ chunk_i = 0
    /\ all_matches_for_file = << >>
    /\ processed = << >>

NoIter == [seqSearches |-> 0, ellSearches |-> 0, ellClicks |-> 0,
           relocations |-> 0, linkClicks |-> 0, clickTimeouts |-> 0,
           clickStales |-> 0, clickErrors |-> 0, confirmations |-> 0]

NoCsv == [written |-> FALSE, rows |-> << >>]

NoFaults == [timedOut |-> FALSE, faulty |-> {}]

Min(a, b) == IF a < b THEN a ELSE b

\* ------------------------------------------------------------ remote pager
\* The pager row shows the links of the window that holds the displayed page
\* (the displayed page itself is a span, not a link) and an ellipsis link
\* while later windows exist.
WindowStart == ((serverPage - 1) \div window) * window + 1
WindowEnd == Min(WindowStart + window - 1, numPages)

\* //tr[@class='pager']//a[... text()='{k}'] is there and clickable.
LinkVisible(k) == k # serverPage /\ k \in WindowStart..WindowEnd

\* //tr[@class='pager']//a[... text()='...'] is there and clickable.
EllipsisVisible == WindowEnd < numPages

\* The page an ellipsis click displays: the first page of the next window.
EllipsisTarget == WindowStart + window

\* -------------------------------------------------------------------- init
Init ==
    /\ prog \in {"lunchcheck", "freedreams"}
    /\ pc = "setup"
    /\ exc = "none"
    /\ stop = "none"
    /\ max_pages \in {-1, 0} \cup (1..MaxCap)
    /\ current_page_number = 0
    /\ next_page_to_click = 0
    /\ next_page_link_element = FALSE
    /\ pagination_advanced = FALSE
    /\ attempt = 0
    /\ all_restaurants = << >>
    /\ session = "none"
    /\ quitCount = 0
    /\ csv = NoCsv
    /\ numPages \in 1..MaxPages
    /\ window \in IF prog = "lunchcheck" THEN 1..MaxWindow ELSE {1}
    /\ serverPage \in IF prog = "lunchcheck" THEN 1..Min(MaxStart, numPages) ELSE {1}
    /\ honest = TRUE
    /\ linkMisses = 0
    /\ extracted = << >>
    /\ iter = NoIter
    /\ all_hotels = << >>
    /\ page = 0
    /\ page_size_selects = 0
    /\ current_selection_value = "none"
    /\ page_rows = << >>
    /\ row_faults = NoFaults
    /\ restaurants_on_page = << >>
    /\ skipped_rows = 0
    /\ NoMerge

\* ------------------------------------------------------- control transfer
\* The break replaced by a continue: control goes back to the top of the
\* while loop.
BreakContinues(reason) == pc' = "cap_check" /\ stop' = reason /\ exc' = exc

\* break out of the while loop: control reaches the finally block (line 370).
Break(reason) == pc' = "finally" /\ stop' = reason /\ exc' = exc

\* An exception leaving the function with no finally block in its way.
RaiseUnprotected(kind, where) == pc' = "raised" /\ exc' = kind /\ stop' = where

\* An exception that no handler of the try block catches: the finally block
\* runs with the exception in flight.
Raise(kind, where) == pc' = "finally" /\ exc' = kind /\ stop' = where

Goto(label) == pc' = label /\ exc' = exc /\ stop' = stop

\* ------------------------------------------------------ scrape_lunchcheck
\* Line 173: driver = setup_driver(...).  When setup_driver raises, no session
\* exists and the call ends before the try block is entered.
LC_setup_driver ==
    /\ prog = "lunchcheck" /\ pc = "setup"
    /\ \E ok \in BOOLEAN :
          IF ok THEN /\ session' = "open"
                     /\ Goto("get")
                ELSE /\ session' = session
                     /\ pc' = "raised" /\ exc' = "Other" /\ stop' = stop
    /\ UNCHANGED << merge, call, size,
                    fd, linkMisses, cfg, loc, all_restaurants, quitCount, csv, serverPage,
                    honest, extracted, iter >>

\* Lines 182-188: driver.get and the wait for the initial table; an exception
\* here is caught by no handler.
LC_get ==
    /\ prog = "lunchcheck" /\ pc = "get"
    /\ \E outcome \in {"ok", "Timeout", "Other"} :
          /\ IF outcome = "ok" THEN Goto("page_size") ELSE Raise(outcome, "get_failed")
          /\ honest' = (honest /\ outcome = "ok")
    /\ UNCHANGED << merge, call, size,
                    fd, linkMisses, cfg, loc, all_restaurants, res, serverPage, extracted, iter >>

\* The handlers of the page-size block letting a timeout through.
AfterPageSizeStrict(outcome) ==
    IF outcome = "Timeout" THEN Raise(outcome, "page_size_failed")
    ELSE Goto("discover")

\* Lines 212-216: the handlers of the page-size block.  A TimeoutException
\* (line 212) and any other exception (line 214) are caught, and like the
\* normal end of the block lead to line 218.
AfterPageSize(outcome) == Goto("discover")

\* The values the page-size control of the remote page may have selected.
SelectionValues == {"20", "500"}

\* The test of the selected value asking for a change whatever it is.
NeedsChangeAlways(value) == TRUE

\* Line 196: the selected value is not the wanted page size.
NeedsChange(value) == value # "500"

\* Lines 190-199, 210-216: wait for the page-size control, read the selected
\* value and, unless it is "500", select "500".  absent: the wait timed out.
LC_page_size ==
    /\ prog = "lunchcheck" /\ pc = "page_size"
    /\ \/ \E outcome \in {"absent", "Timeout", "Other"} :
             /\ honest' = (honest /\ outcome = "absent")
             /\ AfterPageSize(IF outcome = "absent" THEN "Timeout" ELSE outcome)
             /\ UNCHANGED size
       \/ \E value \in SelectionValues :
             /\ current_selection_value' = value
             /\ honest' = honest
             /\ IF NeedsChange(value)
                THEN /\ page_size_selects' = page_size_selects + 1
                     /\ Goto("page_size_refresh")
                ELSE /\ page_size_selects' = page_size_selects
                     /\ AfterPageSize("none")
    /\ UNCHANGED << merge, call, fd, linkMisses, cfg, loc, all_restaurants, res, serverPage,
                    extracted, iter >>

\* Lines 201-209, 212-216: after the change, the waits for the old control
\* to go stale, for the table and for its rows.
LC_page_size_refresh ==
    /\ prog = "lunchcheck" /\ pc = "page_size_refresh"
    /\ \E outcome \in {"confirmed", "Timeout", "Other"} :
          /\ honest' = (honest /\ outcome = "confirmed")
          /\ AfterPageSize(IF outcome = "confirmed" THEN "none" ELSE outcome)
    /\ UNCHANGED << merge, call, size, fd, linkMisses, cfg, loc, all_restaurants, res,
                    serverPage, extracted, iter >>

\* Lines 219-227: the starting page number.  NoSuchElement, Timeout and
\* ValueError give 1; any other exception is not caught.
LC_discover ==
    /\ prog = "lunchcheck" /\ pc = "discover"
    /\ \E outcome \in {"number", "Timeout", "ValueError", "Stale"} :
          /\ honest' = (honest /\ outcome = "number")
          /\ IF outcome = "Stale"
             THEN Raise(outcome, "discover_failed") /\ current_page_number' = current_page_number
             ELSE /\ Goto("cap_check")
                  /\ current_page_number' =
                        IF outcome = "number" THEN serverPage ELSE 1
    /\ UNCHANGED << merge, call, size,
                    fd, linkMisses, cfg, next_page_to_click, next_page_link_element,
                    pagination_advanced, attempt, all_restaurants, res,
                    serverPage, extracted, iter >>

\* The cap check with the comparison off by one.
CapReachedEarly == max_pages > 0 /\ current_page_number >= max_pages

\* The cap check letting one more page through.
CapReachedLate == max_pages > 0 /\ current_page_number > max_pages + 1

\* The cap check taking 0 for a cap.
CapReachedFromZero == max_pages >= 0 /\ current_page_number > max_pages

\* Line 230: the condition of the cap check.
CapReached == max_pages > 0 /\ current_page_number > max_pages

\* Lines 229-232: top of the while loop.
LC_cap_check ==
    /\ prog = "lunchcheck" /\ pc = "cap_check"
    /\ IF CapReached THEN Break("cap_reached") ELSE Goto("extract")
    /\ UNCHANGED << merge, call, size,
                    fd, linkMisses, cfg, loc, all_restaurants, res, serverPage, honest,
                    extracted, iter >>

\* The page's records put in front of the accumulated ones.
ExtendInFront(accumulated, restaurants) == restaurants \o accumulated

\* Line 237: all_restaurants.extend(restaurants_on_current_page).
Extend(accumulated, restaurants) == accumulated \o restaurants

\* Lines 233-248: extract the displayed page, extend the accumulator, reset
\* the pagination locals and compute the label of the next sequential link.
LC_extract ==
    /\ prog = "lunchcheck" /\ pc = "extract"
    /\ \E timedOut \in BOOLEAN, faulty \in SUBSET (1..Len(PageRows(serverPage))) :
          /\ all_restaurants' = Extend(all_restaurants,
                extract_page_data(PageRows(serverPage), timedOut, faulty))
          /\ honest' = (honest /\ ~timedOut /\ faulty = {})
          /\ extracted' = Append(extracted,
                [counter |-> current_page_number, shown |-> serverPage,
                 found |-> ~timedOut])
    /\ next_page_link_element' = FALSE
    /\ pagination_advanced' = FALSE
    /\ next_page_to_click' = current_page_number + 1
    /\ iter' = NoIter
    /\ Goto("seek_seq")
    /\ UNCHANGED << merge, call, size,
                    fd, linkMisses, cfg, current_page_number, attempt, res, serverPage >>

\* Lines 249-259: wait for the clickable link labelled next_page_to_click.
LC_seek_sequential ==
    /\ prog = "lunchcheck" /\ pc = "seek_seq"
    /\ iter' = [iter EXCEPT !.seqSearches = @ + 1]
    /\ \/ /\ LinkVisible(next_page_to_click)
          /\ next_page_link_element' = TRUE
          /\ attempt' = 0
          /\ Goto("click")
          /\ honest' = honest
          /\ linkMisses' = linkMisses
       \/ /\ Goto("seek_ell")
          /\ honest' = (honest /\ ~LinkVisible(next_page_to_click))
          /\ linkMisses' = linkMisses + 1
          /\ UNCHANGED << next_page_link_element, attempt >>
       \/ /\ Raise("Other", "seek_failed")
          /\ honest' = FALSE
          /\ UNCHANGED << next_page_link_element, attempt, linkMisses >>
    /\ UNCHANGED << merge, call, size,
                    fd, cfg, current_page_number, next_page_to_click,
                    pagination_advanced, all_restaurants, res, serverPage,
                    extracted >>

\* The timeout of the ellipsis branch left to propagate.
EllipsisTimeoutRaised == Raise("Timeout", "no_ellipsis")

\* Lines 311-313: a TimeoutException raised in the ellipsis branch ends the
\* loop.
EllipsisTimeout == Break("no_ellipsis")

\* Lines 260-267 and 311-313: wait for the clickable ellipsis link.
LC_seek_ellipsis ==
    /\ prog = "lunchcheck" /\ pc = "seek_ell"
    /\ iter' = [iter EXCEPT !.ellSearches = @ + 1]
    /\ \/ /\ EllipsisVisible
          /\ Goto("ell_click")
          /\ honest' = honest
       \/ /\ EllipsisTimeout
          /\ honest' = (honest /\ ~EllipsisVisible)
       \/ /\ Raise("Other", "ellipsis_failed")
          /\ honest' = FALSE
    /\ UNCHANGED << merge, call, size,
                    fd, linkMisses, cfg, loc, all_restaurants, res, serverPage, extracted >>

\* Lines 269-280 and 311-313: take the old table, click the ellipsis, wait
\* for staleness of the old table and presence of the table and its rows.
\* A timeout of any of these waits is caught at line 311.
LC_click_ellipsis ==
    /\ prog = "lunchcheck" /\ pc = "ell_click"
    /\ \/ \* the wait for the old table times out: no click
          /\ EllipsisTimeout
          /\ honest' = FALSE
          /\ UNCHANGED << serverPage, iter >>
       \/ \* clicked; the new page is confirmed
          /\ \E landing \in 1..numPages :
                /\ serverPage' = landing
                /\ honest' = (honest /\ landing = EllipsisTarget)
          /\ iter' = [iter EXCEPT !.ellClicks = @ + 1]
          /\ Goto("ell_reread")
       \/ \* clicked; a wait after the click times out
          /\ \E landing \in {serverPage, EllipsisTarget} : serverPage' = landing
          /\ iter' = [iter EXCEPT !.ellClicks = @ + 1]
          /\ honest' = FALSE
          /\ EllipsisTimeout
       \/ \* any other exception is caught by no handler
          /\ Raise("Other", "ellipsis_failed")
          /\ honest' = FALSE
          /\ UNCHANGED << serverPage, iter >>
    /\ UNCHANGED << merge, call, size,
                    fd, linkMisses, cfg, loc, all_restaurants, res, extracted >>

\* The label left as line 248 computed it, before the ellipsis click.
RebasedLabelKept(new_current) == next_page_to_click

\* Line 299: the label searched after the ellipsis click, computed from the
\* page number just adopted.
RebasedLabel(new_current) == new_current + 1

\* The progress test letting the same page number through.
EllipsisAdvancedOrSame(new_active_page_number) ==
    new_active_page_number >= current_page_number

\* Line 287: the ellipsis click made progress.
EllipsisAdvanced(new_active_page_number) ==
    new_active_page_number > current_page_number

\* The page number taken to be the one after the current one.
AdoptedPageGuessed(new_active_page_number) == current_page_number + 1

\* Line 288: the page number adopted after the ellipsis click is the one read
\* from the pager.
AdoptedPage(new_active_page_number) == new_active_page_number

\* Lines 283-294 and 311-313: re-read the active page number after the
\* ellipsis click.  A timeout is caught at line 311; the ValueError of int()
\* and any other exception are caught by no handler.
LC_reread_active_page ==
    /\ prog = "lunchcheck" /\ pc = "ell_reread"
    /\ \/ /\ honest' = honest
          /\ IF EllipsisAdvanced(serverPage)
             THEN /\ current_page_number' = AdoptedPage(serverPage)
                  /\ pagination_advanced' = TRUE
                  /\ next_page_to_click' = RebasedLabel(serverPage)
                  /\ Goto("seek_after_ell")
             ELSE /\ Break("ellipsis_no_progress")
                  /\ UNCHANGED << current_page_number, pagination_advanced,
                                  next_page_to_click >>
       \/ /\ honest' = FALSE
          /\ EllipsisTimeout
          /\ UNCHANGED << current_page_number, pagination_advanced,
                          next_page_to_click >>
       \/ /\ honest' = FALSE
          /\ \E kind \in {"ValueError", "Stale"} : Raise(kind, "reread_failed")
          /\ UNCHANGED << current_page_number, pagination_advanced,
                          next_page_to_click >>
    /\ UNCHANGED << merge, call, size,
                    fd, linkMisses, cfg, next_page_link_element, attempt, all_restaurants, res,
                    serverPage, extracted, iter >>

\* The guard of the click loop asking only for a link.
ShouldClickAnyLink(link_found, advanced) == link_found

\* Line 316: the click loop is entered with a link in hand and no advance
\* made through the ellipsis.
ShouldClick(link_found, advanced) == link_found /\ ~ advanced

\* Lines 298-309, then 316 and 363: look for the next sequential link again.
\* Found: the element is kept but not clicked (pagination_advanced is set),
\* and the while loop goes round.  Timeout: break at line 309.
LC_seek_after_ellipsis ==
    /\ prog = "lunchcheck" /\ pc = "seek_after_ell"
    /\ iter' = [iter EXCEPT !.seqSearches = @ + 1]
    /\ \/ /\ LinkVisible(next_page_to_click)
          /\ next_page_link_element' = TRUE
          /\ honest' = honest
          /\ IF ShouldClick(next_page_link_element', pagination_advanced)
             THEN Goto("click") ELSE
             IF ~pagination_advanced THEN Break("not_advanced")
             ELSE Goto("cap_check")
          /\ linkMisses' = linkMisses
       \/ /\ Break("no_link_after_ellipsis")
          /\ honest' = (honest /\ ~LinkVisible(next_page_to_click))
          /\ linkMisses' = linkMisses + 1
          /\ UNCHANGED next_page_link_element
       \/ /\ Raise("Other", "seek_failed")
          /\ honest' = FALSE
          /\ UNCHANGED << next_page_link_element, linkMisses >>
    /\ UNCHANGED << merge, call, size,
                    fd, cfg, current_page_number, next_page_to_click,
                    pagination_advanced, attempt, all_restaurants, res,
                    serverPage, extracted >>

\* The counter moved by two.
CountPageTwice(n) == n + 2

\* The confirmed click leaving the counter where it was.
CountPageNever(n) == n

\* Line 343: current_page_number += 1.
CountPage(n) == n + 1

\* Lines 347-351: handler of StaleElementReferenceException in the click loop.
AfterStale(a) == IF a = 2 THEN "raise" ELSE "retry"

\* The timeout handler going round the loop like the other two.
AfterTimeoutRetry(a) == "retry"

\* Lines 352-355: handler of TimeoutException in the click loop.
AfterTimeout(a) == "break"

\* Lines 356-360: handler of any other exception in the click loop.
AfterError(a) == IF a = 2 THEN "raise" ELSE "retry"

\* The counter moved as soon as the table is back, its rows not awaited.
ClickConfirmedEarly(waits) == waits >= ConfirmationWaits - 1

\* Lines 334-343: line 343 is reached when none of the three waits raised.
ClickConfirmed(waits) == waits = ConfirmationWaits

\* The handlers going round the click loop whatever was raised, with no end
\* to the range.
ClickHandledEndless(verdict, kind) ==
    /\ Goto("click") /\ attempt' = attempt + 1
    /\ UNCHANGED << current_page_number, pagination_advanced >>

\* What the raised exception does to the run, by the handler's verdict:
\* re-raise, break out of the for loop (then line 363 breaks the while loop,
\* pagination_advanced being unset), or go round the for loop, which ends
\* after range(3) is used up.
ClickHandled(verdict, kind) ==
    /\ CASE verdict = "raise" -> Raise(kind, "click_retries_exhausted") /\ attempt' = attempt
         [] verdict = "break" -> Break("not_advanced") /\ attempt' = attempt
         [] OTHER -> IF attempt + 1 < MaxAttempts
                     THEN Goto("click") /\ attempt' = attempt + 1
                     ELSE Break("not_advanced") /\ attempt' = attempt
    /\ UNCHANGED << current_page_number, pagination_advanced >>

\* Lines 317-365: one pass of the click loop: re-locate the link, take the old
\* table, click, wait for staleness of the old table and presence of the new
\* table and its rows; on success count the page and go round the while loop.
LC_click_attempt ==
    /\ prog = "lunchcheck" /\ pc = "click"
    /\ \/ \* clicked; the first waits of the three waits after the click
          \* succeed, in their order; the next one, if any, times out
          /\ LinkVisible(next_page_to_click)
          /\ \E waits \in 0..ConfirmationWaits,
                shown \in {serverPage, next_page_to_click} :
                /\ waits = ConfirmationWaits => shown = next_page_to_click
                /\ serverPage' = shown
                /\ iter' = [iter EXCEPT
                               !.relocations = @ + 1, !.linkClicks = @ + 1,
                               !.confirmations = waits,
                               !.clickTimeouts =
                                   IF waits = ConfirmationWaits THEN @ ELSE @ + 1]
                /\ honest' = (honest /\ waits = ConfirmationWaits)
                /\ IF ClickConfirmed(waits)
                   THEN /\ current_page_number' = CountPage(current_page_number)
                        /\ pagination_advanced' = TRUE
                        /\ attempt' = attempt
                        /\ Goto("cap_check")
                   ELSE ClickHandled(AfterTimeout(attempt), "Timeout")
       \/ \* TimeoutException before the click (re-locating, or the old table)
          /\ serverPage' = serverPage
          /\ iter' = [iter EXCEPT !.relocations = @ + 1, !.clickTimeouts = @ + 1]
          /\ honest' = FALSE
          /\ ClickHandled(AfterTimeout(attempt), "Timeout")
       \/ \* StaleElementReferenceException on the re-located link: no click
          /\ LinkVisible(next_page_to_click)
          /\ serverPage' = serverPage
          /\ iter' = [iter EXCEPT !.relocations = @ + 1, !.clickStales = @ + 1]
          /\ honest' = FALSE
          /\ ClickHandled(AfterStale(attempt), "Stale")
       \/ \* any other exception, before or after the click
          /\ \E shown \in {serverPage} \cup
                          (IF LinkVisible(next_page_to_click)
                           THEN {next_page_to_click} ELSE {}) :
                /\ serverPage' = shown
                /\ iter' = [iter EXCEPT !.relocations = @ + 1,
                               !.clickErrors = @ + 1,
                               !.linkClicks = IF shown = serverPage THEN @ ELSE @ + 1]
          /\ honest' = FALSE
          /\ ClickHandled(AfterError(attempt), "Other")
    /\ UNCHANGED << merge, call, size,
                    fd, linkMisses, cfg, next_page_to_click, next_page_link_element,
                    all_restaurants, res, extracted >>

\* Lines 370-372: the finally block: driver.quit(), then the exception in
\* flight, if any, leaves the function.
LC_finally ==
    /\ prog = "lunchcheck" /\ pc = "finally"
    /\ session' = "closed"
    /\ quitCount' = quitCount + 1
    /\ pc' = IF exc # "none" THEN "raised" ELSE "write"
    /\ UNCHANGED << merge, call, size,
                    fd, linkMisses, exc, stop, cfg, loc, all_restaurants, csv, serverPage,
                    honest, extracted, iter >>

\* Lines 374-381: write the accumulator, if it holds anything.
LC_write_csv ==
    /\ prog = "lunchcheck" /\ pc = "write"
    /\ csv' = IF all_restaurants # << >>
              THEN [written |-> TRUE, rows |-> all_restaurants]
              ELSE csv
    /\ pc' = "done"
    /\ UNCHANGED << merge, call, size,
                    fd, linkMisses, exc, stop, cfg, loc, all_restaurants, session, quitCount,
                    serverPage, honest, extracted, iter >>

LC_Next ==
    \/ LC_setup_driver \/ LC_get \/ LC_page_size \/ LC_page_size_refresh \/ LC_discover
    \/ LC_cap_check \/ LC_extract \/ LC_seek_sequential \/ LC_seek_ellipsis
    \/ LC_click_ellipsis \/ LC_reread_active_page \/ LC_seek_after_ellipsis
    \/ LC_click_attempt \/ LC_finally \/ LC_write_csv

\* ------------------------------------------------ scrape_freedreams_hotels
lcLocals == << loc, all_restaurants, iter >>

\* The hotel items the server renders for page p.
HotelItems(p) == << p * 10 + 1, p * 10 + 2 >>

\* The loop over the hotel items ended by the first item whose parsing
\* raises.
RECURSIVE HotelLoopAborting(_, _, _)
HotelLoopAborting(hotels, k, faulty) ==
    IF k > Len(hotels) THEN << >>
    ELSE IF k \in faulty THEN << >>
    ELSE << hotels[k] >> \o HotelLoopAborting(hotels, k + 1, faulty)

\* Lines 171-198: the loop over the hotel items; an item whose parsing raises
\* is skipped.
RECURSIVE HotelLoop(_, _, _)
HotelLoop(hotels, k, faulty) ==
    IF k > Len(hotels) THEN << >>
    ELSE (IF k \in faulty THEN << >> ELSE << hotels[k] >>)
         \o HotelLoop(hotels, k + 1, faulty)

\* Lines 53-57: the browser is started before the try block.
FD_setup_driver ==
    /\ prog = "freedreams" /\ pc = "setup"
    /\ \E ok \in BOOLEAN :
          IF ok THEN /\ session' = "open"
                     /\ Goto("get")
                ELSE /\ session' = session
                     /\ pc' = "raised" /\ exc' = "Other" /\ stop' = stop
    /\ UNCHANGED << merge, call, size,
                    fd, linkMisses, cfg, lcLocals, quitCount, csv, serverPage, honest,
                    extracted >>

\* Lines 61-86: load the search page and submit the search; an exception is
\* caught at line 203.
FD_search ==
    /\ prog = "freedreams" /\ pc = "get"
    /\ \E outcome \in {"ok", "Timeout", "Other"} :
          /\ IF outcome = "ok" THEN Goto("max_pages")
             ELSE pc' = "finally" /\ stop' = "error" /\ exc' = exc
          /\ honest' = (honest /\ outcome = "ok")
    /\ UNCHANGED << merge, call, size,
                    fd, linkMisses, cfg, lcLocals, res, serverPage, extracted >>

\* The largest member of a non-empty set of numbers.
MaxOf(numbers) == CHOOSE m \in numbers : \A n \in numbers : n <= m

\* The bound read from the last pager item alone.
PageBoundLastItemOnly(last_item, page_links) ==
    IF last_item # 0 THEN last_item ELSE 1

\* Lines 100-112: the bound read from the pager.  last_item is the number the
\* text of the last pager item stands for (0: the text is no number),
\* page_links the numbers of the page links whose text is a number.
PageBound(last_item, page_links) ==
    IF last_item # 0 THEN last_item
    ELSE IF page_links # {} THEN MaxOf(page_links)
    ELSE 1

\* Lines 89-121: with max_pages = -1 the bound is read from the pager: the
\* text of the last pager item when it is a number, else the largest numeric
\* page link, else 1; 1 as well when the pager is absent (Timeout) or reading
\* it fails (ValueError of max() over links without a number, any other).
FD_determine_max_pages ==
    /\ prog = "freedreams" /\ pc = "max_pages"
    /\ IF max_pages = -1
       THEN \E outcome \in {"read", "Timeout", "ValueError", "Other"},
               last_item \in {0, numPages}, page_links \in {{}, 1..numPages} :
               /\ max_pages' = IF outcome = "read"
                               THEN PageBound(last_item, page_links) ELSE 1
               /\ honest' = (honest /\ outcome = "read"
                                    /\ (last_item # 0 \/ page_links # {}))
       ELSE UNCHANGED << max_pages, honest >>
    /\ page' = 1
    /\ Goto("page_loop")
    /\ UNCHANGED << merge, call, size,
                    linkMisses, all_hotels, prog, numPages, window, lcLocals, res,
                    serverPage, extracted >>

\* The range running one page past max_pages.
RangeDoneLate == page > max_pages + 1

\* Line 124: range(1, max_pages + 1) is used up.
RangeDone == page > max_pages

\* Line 124: for page in range(1, max_pages + 1).
FD_loop_head ==
    /\ prog = "freedreams" /\ pc = "page_loop"
    /\ IF RangeDone THEN Break("range_done")
       ELSE IF page > 1 THEN Goto("navigate") ELSE Goto("hotels")
    /\ UNCHANGED << merge, call, size,
                    fd, linkMisses, cfg, lcLocals, res, serverPage, honest, extracted >>

\* Lines 126-156: click the link of the page and wait for the new list; any
\* exception breaks the loop.
FD_navigate ==
    /\ prog = "freedreams" /\ pc = "navigate"
    /\ \/ /\ page <= numPages
          /\ serverPage' = page
          /\ honest' = honest
          /\ Goto("hotels")
       \/ /\ \E reason \in {"nav_timeout", "nav_stale", "nav_error"} : Break(reason)
          /\ \E shown \in {serverPage} \cup (IF page <= numPages THEN {page} ELSE {}) :
                serverPage' = shown
          /\ honest' = (honest /\ page > numPages)
    /\ UNCHANGED << merge, call, size,
                    fd, linkMisses, cfg, lcLocals, res, extracted >>

\* Lines 158-201: wait for the hotel items, parse each, and go to the next
\* value of the range.  An exception other than a timeout of the wait is
\* caught at line 203.
FD_extract ==
    /\ prog = "freedreams" /\ pc = "hotels"
    /\ \/ /\ \E faulty \in SUBSET (1..Len(HotelItems(serverPage))) :
                /\ all_hotels' = all_hotels \o
                      HotelLoop(HotelItems(serverPage), 1, faulty)
                /\ row_faults' = [timedOut |-> FALSE, faulty |-> faulty]
                /\ honest' = (honest /\ faulty = {})
          /\ extracted' = Append(extracted,
                [counter |-> page, shown |-> serverPage, found |-> TRUE])
          /\ page' = page + 1
          /\ Goto("page_loop")
       \/ /\ Break("no_hotels")
          /\ honest' = FALSE
          /\ UNCHANGED << fd, linkMisses, extracted, row_faults >>
       \/ /\ pc' = "finally" /\ stop' = "error" /\ exc' = exc
          /\ honest' = FALSE
          /\ UNCHANGED << fd, linkMisses, extracted, row_faults >>
    /\ UNCHANGED << merge, page_rows, restaurants_on_page, skipped_rows, size,
                    linkMisses, cfg, lcLocals, res, serverPage >>

\* Lines 203-207: the except clause has swallowed any exception; the finally
\* block quits the browser.
FD_finally ==
    /\ prog = "freedreams" /\ pc = "finally"
    /\ session' = "closed"
    /\ quitCount' = quitCount + 1
    /\ pc' = "write"
    /\ UNCHANGED << merge, call, size,
                    fd, linkMisses, exc, stop, cfg, lcLocals, csv, serverPage, honest,
                    extracted >>

\* Lines 209-217: write the accumulator, if it holds anything.
FD_write_csv ==
    /\ prog = "freedreams" /\ pc = "write"
    /\ csv' = IF all_hotels # << >>
              THEN [written |-> TRUE, rows |-> all_hotels]
              ELSE csv
    /\ pc' = "done"
    /\ UNCHANGED << merge, call, size,
                    fd, linkMisses, exc, stop, cfg, lcLocals, session, quitCount,
                    serverPage, honest, extracted >>

FD_Next ==
    \/ FD_setup_driver \/ FD_search \/ FD_determine_max_pages \/ FD_loop_head
    \/ FD_navigate \/ FD_extract \/ FD_finally \/ FD_write_csv

Next == LC_Next \/ FD_Next

Spec == Init /\ [][Next]_vars

\* Every wait of the code returns or times out and every statement ends, so
\* a run that can take a step takes one.
LiveSpec == Init /\ [][Next]_vars /\ WF_vars(Next)

\* ------------------------------------------- extract_page_data on its own
\* One call of extract_page_data on a page drawn from RawPages; no scraper
\* runs around it.
ExtractInit ==
    /\ prog = "extract_page_data"
    /\ pc = "call"
    /\ exc = "none"
    /\ stop = "none"
    /\ max_pages = -1
    /\ current_page_number = 0
    /\ next_page_to_click = 0
    /\ next_page_link_element = FALSE
    /\ pagination_advanced = FALSE
    /\ attempt = 0
    /\ all_restaurants = << >>
    /\ session = "open"
    /\ quitCount = 0
    /\ csv = NoCsv
    /\ numPages = 1
    /\ window = 1
    /\ serverPage = 1
    /\ honest = TRUE
    /\ linkMisses = 0
    /\ extracted = << >>
    /\ iter = NoIter
    /\ all_hotels = << >>
    /\ page = 0
    /\ page_size_selects = 0
    /\ current_selection_value = "none"
    /\ page_rows \in RawPages
    /\ row_faults = NoFaults
    /\ restaurants_on_page = << >>
    /\ skipped_rows = 0
    /\ NoMerge

\* Lines 39-152: the whole call.  The wait for the rows may time out (or fail
\* otherwise), and the processing of any row may raise.
EX_extract_page_data ==
    /\ prog = "extract_page_data" /\ pc = "call"
    /\ \E timedOut \in BOOLEAN, faulty \in SUBSET (1..Len(page_rows)) :
          /\ timedOut => faulty = {}
          /\ row_faults' = [timedOut |-> timedOut, faulty |-> faulty]
          /\ restaurants_on_page' = extract_page_data(page_rows, timedOut, faulty)
          /\ skipped_rows' = SkippedRows(page_rows, timedOut, faulty)
    /\ pc' = "returned"
    /\ UNCHANGED << merge, prog, exc, stop, max_pages, loc, all_restaurants, res, numPages,
                    window, serverPage, honest, linkMisses, extracted, iter, fd,
                    size, page_rows >>

ExtractNext == EX_extract_page_data

ExtractSpec == ExtractInit /\ [][ExtractNext]_vars

\* ------------------------------------------------- merge_datasets: matching
\* A name is the set of its tokens; the empty set is the empty string.
Tokens == {"a", "b"}
Names == SUBSET Tokens

\* The scores --restaurant_match_score asks for in the runs of the model.
MatchScores == {0, 80, 100}

\* Line 99: fuzz.token_set_ratio of the library, which compares the names as
\* sets of tokens: 100 when one name's tokens are all tokens of the other,
\* else a score that grows with the share of common tokens.
token_set_ratio(s1, s2) ==
    IF s1 = {} \/ s2 = {} THEN 0
    ELSE IF s1 \subseteq s2 \/ s2 \subseteq s1 THEN 100
    ELSE (200 * Cardinality(s1 \cap s2)) \div (Cardinality(s1) + Cardinality(s2))

\* The comparison leaving out a score equal to the minimum.
IsMatchAbove(score, minimum) == score > minimum

\* Line 101: the score reaches the minimum.
IsMatch(score, minimum) == score >= minimum

\* Lines 103-109: the combined row of a match.
CombinedRow(row_fd, row_lc, score) ==
    [freedreams_hotel_name |-> row_fd, lunchcheck_restaurant_name |-> row_lc,
     Match_Score |-> score]

\* Lines 92-109: the loop over the lunchcheck rows, from row k on.
RECURSIVE LunchcheckLoop(_, _, _, _)
LunchcheckLoop(freedreams_name, lunchcheck, k, minimum) ==
    IF k > Len(lunchcheck) THEN << >>
    ELSE (IF lunchcheck[k] = {} THEN << >>
          ELSE IF IsMatch(token_set_ratio(freedreams_name, lunchcheck[k]), minimum)
          THEN << CombinedRow(freedreams_name, lunchcheck[k],
                              token_set_ratio(freedreams_name, lunchcheck[k])) >>
          ELSE << >>)
         \o LunchcheckLoop(freedreams_name, lunchcheck, k + 1, minimum)

\* Lines 73-110: process_freedreams_row.
process_freedreams_row(row_fd, lunchcheck, minimum) ==
    IF row_fd = {} THEN << >> ELSE LunchcheckLoop(row_fd, lunchcheck, 1, minimum)

Max(a, b) == IF a > b THEN a ELSE b

\* Line 151: the chunk size (os.cpu_count() or 10 when n_jobs is -1).
ChunkSize(rows, jobs, cpus) ==
    Max(1, rows \div (IF jobs # -1 THEN jobs ELSE IF cpus # 0 THEN cpus ELSE 10))

\* Lines 154-159: the results of the rows from .. to of the table, in the
\* order of the rows (Parallel returns the results in the order of the
\* calls), each extended onto the matches.
RECURSIVE ChunkResults(_, _)
ChunkResults(from, to) ==
    IF from > to THEN << >>
    ELSE process_freedreams_row(freedreams_df[from], df_lunchcheck,
                                restaurant_match_score)
         \o ChunkResults(from + 1, to)

\* The state at line 152 of main, the two tables loaded (find_and_load_data
\* has returned a lunchcheck table that is not empty).
MergeInit ==
    /\ prog = "merge_datasets"
    /\ pc = "chunks"
    /\ exc = "none"
    /\ stop = "none"
    /\ max_pages = -1
    /\ current_page_number = 0
    /\ next_page_to_click = 0
    /\ next_page_link_element = FALSE
    /\ pagination_advanced = FALSE
    /\ attempt = 0
    /\ all_restaurants = << >>
    /\ session = "none"
    /\ quitCount = 0
    /\ csv = NoCsv
    /\ numPages = 1
    /\ window = 1
    /\ serverPage = 1
    /\ honest = TRUE
    /\ linkMisses = 0
    /\ extracted = << >>
    /\ iter = NoIter
    /\ all_hotels = << >>
    /\ page = 0
    /\ page_size_selects = 0
    /\ current_selection_value = "none"
    /\ page_rows = << >>
    /\ row_faults = NoFaults
    /\ restaurants_on_page = << >>
    /\ skipped_rows = 0
    /\ freedreams_df \in UNION { [1..n -> Names] : n \in 0..MaxHotels }
    /\ df_lunchcheck \in UNION { [1..n -> Names] : n \in 1..MaxRestaurants }
    /\ restaurant_match_score \in MatchScores
    /\ n_jobs \in {-1} \cup (1..MaxJobs)
    /\ cpu_count \in IF n_jobs = -1 THEN {0, 2} ELSE {2}
    /\ chunk_i = 0
    /\ all_matches_for_file = << >>
    /\ processed = << >>

scraperVars == << prog, exc, stop, max_pages, loc, all_restaurants, res, numPages,
                 window, serverPage, honest, linkMisses, extracted, iter, fd,
                 size, call >>

\* Lines 152-160: one round of the chunk loop: the rows i .. i+chunk_size-1
\* are processed and their matches collected.
MG_chunk ==
    /\ prog = "merge_datasets" /\ pc = "chunks"
    /\ chunk_i < Len(freedreams_df)
    /\ LET chunk_size == ChunkSize(Len(freedreams_df), n_jobs, cpu_count)
           last == Min(chunk_i + chunk_size, Len(freedreams_df))
       IN  /\ all_matches_for_file' =
                 all_matches_for_file \o ChunkResults(chunk_i + 1, last)
           /\ processed' = processed \o [k \in 1..(last - chunk_i) |-> chunk_i + k]
           /\ chunk_i' = chunk_i + chunk_size
    /\ pc' = pc
    /\ UNCHANGED << scraperVars, freedreams_df, df_lunchcheck,
                    restaurant_match_score, n_jobs, cpu_count >>

\* Line 152: range(0, len(freedreams_df), chunk_size) is used up.
MG_loop_end ==
    /\ prog = "merge_datasets" /\ pc = "chunks"
    /\ chunk_i >= Len(freedreams_df)
    /\ pc' = "matched"
    /\ UNCHANGED << scraperVars, merge >>

MergeNext == MG_chunk \/ MG_loop_end

MergeSpec == MergeInit /\ [][MergeNext]_vars

\* ================================================================ properties
Ended == pc \in {"done", "raised"}
LoopLeft == pc \in {"finally", "write", "done", "raised"}
Lunchcheck == prog = "lunchcheck"

\* The counter values, and the pages shown, at the extract_page_data calls.
Counters == [i \in 1..Len(extracted) |-> extracted[i].counter]
Shown == [i \in 1..Len(extracted) |-> extracted[i].shown]
UpTo(n) == [i \in 1..n |-> i]
LastExtract == extracted[Len(extracted)]

\* The run started on page 1 and read that number from the pager.
StartedAtOne ==
    extracted # << >> /\ extracted[1].counter = 1 /\ extracted[1].shown = 1

\* The record the documented schema gives for row r of page p when the row
\* has c cells: name, address, zip, city, canton, phone at the 0-based offsets
\* c-11 .. c-6.
SchemaRecord(p, r, c) ==
    [RestaurantName |-> Cell(p, r, c - 10),
     Address        |-> Cell(p, r, c - 9),
     ZIPCode        |-> Cell(p, r, c - 8),
     City           |-> Cell(p, r, c - 7),
     Canton         |-> Cell(p, r, c - 6),
     Phone          |-> Cell(p, r, c - 5)]

\* The valid records of page p, top to bottom: its first row, and on odd
\* pages its second row.
ValidRecords(p) ==
    << SchemaRecord(p, 1, 13 + 2 * (p % 5)) >> \o
    (IF p % 2 = 1 THEN << SchemaRecord(p, 2, 13 + 2 * ((p + 2) % 5)) >> ELSE << >>)

\* The valid records of pages lo..hi in page-then-row order.
RECURSIVE RecordsOfPages(_, _)
RecordsOfPages(lo, hi) ==
    IF lo > hi THEN << >>
    ELSE ValidRecords(lo) \o RecordsOfPages(lo + 1, hi)

Delivered == csv.written /\ csv.rows = all_restaurants

\* ---- C1
\* C1 (as claimed; refuted by the code): however the run of scrape_lunchcheck
\* ends once records were accumulated (cap reached, pagination exhausted,
\* navigation failure after the retries, failure while re-reading the page
\* number), the accumulated records reach the CSV write.
C1_PartialResultsDelivered ==
    (Lunchcheck /\ Ended /\ all_restaurants # << >>
       /\ stop \in {"cap_reached", "no_ellipsis", "ellipsis_no_progress",
                    "no_link_after_ellipsis", "not_advanced", "reread_failed",
                    "click_retries_exhausted"})
    => Delivered

\* ---- C2
\* A navigation-advance fault: the next-page control was never found, or the
\* click was never confirmed (three stale-reference failures included).
NavigationFault ==
    \/ stop \in {"no_ellipsis", "no_link_after_ellipsis", "not_advanced"}
    \/ iter.clickStales = MaxAttempts

\* C2 (as claimed; refuted by the code): a navigation-advance fault ends the
\* run of scrape_lunchcheck as a stop outcome; no exception reaches the caller.
C2_NavigationFaultNotRaised ==
    (Lunchcheck /\ Ended /\ NavigationFault) => (pc = "done" /\ exc = "none")

\* ---- C3
CappedSource ==
    /\ Lunchcheck /\ max_pages >= 1 /\ numPages > max_pages
    /\ honest /\ linkMisses = 0

\* C3: with max_pages = M >= 1, start page 1, more than M pages, every
\* sequential link found and every click confirmed, extract_page_data is
\* called for pages 1..M in order, never more than M times, and the loop is
\* left at the cap check.
C3_CapStopsAfterMPages ==
    (CappedSource /\ extracted # << >> /\ StartedAtOne)
    => /\ Len(extracted) <= max_pages
       /\ Counters = UpTo(Len(extracted))
       /\ Shown = UpTo(Len(extracted))
       /\ LoopLeft => (Len(extracted) = max_pages /\ stop = "cap_reached")

C3_Witness ==
    /\ CappedSource /\ StartedAtOne /\ pc = "done"
    /\ max_pages = 2 /\ Counters = << 1, 2 >> /\ stop = "cap_reached"

\* ---- C4
\* C4: with max_pages = -1, a P-page source whose pager shows every page link,
\* start page 1 and no failed wait, the accumulator ends as the valid records
\* of pages 1..P in page-then-row order, they are written, and the run ends
\* because neither link P+1 nor an ellipsis is found.
C4_AllPagesInOrder ==
    (Lunchcheck /\ max_pages = -1 /\ window >= numPages /\ honest /\ LoopLeft)
    => (StartedAtOne
        => /\ all_restaurants = RecordsOfPages(1, numPages)
           /\ Counters = UpTo(numPages)
           /\ stop = "no_ellipsis"
           /\ iter.seqSearches = 1 /\ iter.ellSearches = 1 /\ iter.ellClicks = 0
           /\ pc = "done" => Delivered)

C4_Witness ==
    /\ Lunchcheck /\ max_pages = -1 /\ window >= numPages /\ honest
    /\ StartedAtOne /\ pc = "done" /\ numPages = 3
    /\ Len(all_restaurants) = 5 /\ csv.rows = RecordsOfPages(1, 3)

\* ---- C5
\* C5 (as claimed; refuted by the code): with max_pages = -1, start page 1, a
\* windowed pager whose ellipsis lands on the first page of the next window
\* and no failed wait, every page 1..P is extracted exactly once in ascending
\* order.
C5_WindowedPagerAllPages ==
    (Lunchcheck /\ max_pages = -1 /\ honest /\ StartedAtOne /\ pc = "done")
    => Counters = UpTo(numPages)

\* ---- C6
\* C6: whenever the click on the link labelled n+1, found from page n, is
\* confirmed, the counter moves from n to n+1, the server shows page n+1, and
\* that iteration neither searched for nor clicked the ellipsis.
C6_SequentialAdvance ==
    [][(pc = "click" /\ pc' = "cap_check")
       => /\ current_page_number' = current_page_number + 1
          /\ next_page_to_click = current_page_number + 1
          /\ serverPage' = next_page_to_click
          /\ iter'.ellSearches = 0 /\ iter'.ellClicks = 0
          /\ iter'.seqSearches = 1]_vars

C6_Witness ==
    /\ Lunchcheck /\ pc = "cap_check" /\ iter.linkClicks = 1
    /\ current_page_number = LastExtract.counter + 1
    /\ serverPage = current_page_number /\ iter.ellSearches = 0

\* ---- C7
\* C7: when the link n+1 is absent, the ellipsis is clicked and the active
\* page then reads m > n, m becomes current_page_number, and every sequential
\* search from then on is for the label current_page_number + 1 = m + 1.
C7_RebaseAfterEllipsis ==
    [][/\ (pc = "ell_reread" /\ pc' = "seek_after_ell")
          => /\ serverPage > current_page_number
             /\ current_page_number' = serverPage
       /\ (pc' \in {"seek_seq", "seek_after_ell", "click"})
          => next_page_to_click' = current_page_number' + 1]_vars

\* The ellipsis jumped two pages or more and the link m+1 was then found.
C7_Witness ==
    /\ Lunchcheck /\ pc = "cap_check" /\ iter.ellClicks = 1
    /\ current_page_number >= LastExtract.counter + 2
    /\ current_page_number = serverPage
    /\ next_page_to_click = current_page_number + 1
    /\ next_page_link_element /\ pagination_advanced

\* ---- C8
\* C8 (as claimed; refuted by the code): the navigator gives up on a click
\* whose confirmation timed out only after 3 attempts.
C8_ThreeAttemptsOnTimeout ==
    (Lunchcheck /\ LoopLeft /\ iter.clickTimeouts > 0
       /\ iter.linkClicks = iter.relocations)
    => iter.relocations = MaxAttempts

\* C8 (amended): a timeout in the click loop, before or after the click, is
\* not retried: the first one ends the loop as a stop outcome, without an
\* exception.  Only stale-reference and other non-timeout exceptions are
\* retried, the control re-located each time, and there are never more than
\* 3 attempts.
C8_TimeoutEndsClickLoop ==
    Lunchcheck
    => /\ iter.clickTimeouts <= 1
       /\ iter.clickTimeouts = 1
          => (LoopLeft /\ stop = "not_advanced" /\ exc = "none"
              /\ ~pagination_advanced)
       /\ iter.relocations <= MaxAttempts
       /\ iter.linkClicks <= iter.relocations
       /\ iter.relocations =
             iter.clickTimeouts + iter.clickStales + iter.clickErrors
             + (IF pagination_advanced /\ iter.ellClicks = 0 THEN 1 ELSE 0)
       /\ pc = "click" => iter.relocations = attempt

\* A click was issued, its confirmation timed out, and the run stopped
\* after that single attempt.
C8_Witness ==
    /\ Lunchcheck /\ pc = "done" /\ stop = "not_advanced"
    /\ iter.clickTimeouts = 1 /\ iter.linkClicks = 1 /\ iter.relocations = 1

\* ---- C9
TableMissing == extracted # << >> /\ ~LastExtract.found

C10_SessionReleasedOnce ==
    /\ quitCount <= 1
    /\ session = "open" <=> (quitCount = 0 /\ pc \notin {"setup", "raised"})
    /\ (pc \in {"write", "done", "raised"} /\ session # "none")
       => (session = "closed" /\ quitCount = 1)
    /\ session = "none" => pc \in {"setup", "raised"}

\* An exception left scrape_lunchcheck and the session was quit once.
C10_Witness ==
    /\ Lunchcheck /\ pc = "raised" /\ exc = "Stale" /\ session = "closed"
    /\ quitCount = 1

\* ---- C11
\* C11 (as claimed; refuted by the code): when the wait for the data table
\* after the initial navigation times out, the run of scrape_lunchcheck ends
\* with a stop outcome and returns normally to the caller.
C11_MissingTableReturnsNormally ==
    (Lunchcheck /\ Ended /\ stop = "get_failed" /\ exc # "Other") => pc = "done"

\* ---- rows of one extract_page_data call (C12 .. C15)
Returned == prog = "extract_page_data" /\ pc = "returned"

RecognisedCounts == {13, 15, 17, 19, 21}

Width(k) == Len(page_rows[k].cells)

\* The cell of row k at the 0-based offset o.
CellAt(k, o) == page_rows[k].cells[o + 1]

AllEmpty(k) == \A i \in 1..Width(k) : page_rows[k].cells[i] = 0

\* Row k reached the classification: the rows were found, the row raised
\* nothing and it is not a pager row.
Classified(k) ==
    /\ ~ row_faults.timedOut
    /\ k \notin row_faults.faulty
    /\ "pager" \notin page_rows[k].cls

\* Row k has a recognised cell count c and non-empty cells at the offsets
\* c-11 (name) and c-10 (address).
Qualifies(k) ==
    /\ Classified(k)
    /\ Width(k) \in RecognisedCounts
    /\ CellAt(k, Width(k) - 11) # 0
    /\ CellAt(k, Width(k) - 10) # 0

\* The six documented fields, from the offsets c-11 .. c-6 of row k.
DocumentedRecord(k) ==
    [RestaurantName |-> CellAt(k, Width(k) - 11),
     Address        |-> CellAt(k, Width(k) - 10),
     ZIPCode        |-> CellAt(k, Width(k) - 9),
     City           |-> CellAt(k, Width(k) - 8),
     Canton         |-> CellAt(k, Width(k) - 7),
     Phone          |-> CellAt(k, Width(k) - 6)]

\* The number of qualifying rows among the first k rows.
Rank(k) == Cardinality({ j \in 1..k : Qualifies(j) })

\* ---- C12
\* C12: every row that reaches the classification with a cell count c in
\* {13,15,17,19,21} and non-empty cells at the offsets c-11 and c-10 yields
\* exactly one record, whose six fields (name, address, zip, city, canton,
\* phone) are the cells at the offsets c-11, c-10, c-9, c-8, c-7, c-6: the
\* offsets lie inside the row, increase by one from field to field and by two
\* from one recognised count to the next.
C12_RecognisedRowYieldsRecord ==
    Returned =>
        /\ Len(restaurants_on_page) = Rank(Len(page_rows))
        /\ \A k \in 1..Len(page_rows) :
              Qualifies(k) =>
                  /\ Width(k) - 11 >= 0 /\ Width(k) - 6 < Width(k)
                  /\ restaurants_on_page[Rank(k)] = DocumentedRecord(k)
                  /\ DOMAIN restaurants_on_page[Rank(k)] =
                        {"RestaurantName", "Address", "ZIPCode", "City", "Canton", "Phone"}

C12_Witness ==
    /\ Returned /\ Len(page_rows) = 2 /\ Len(restaurants_on_page) = 2
    /\ Qualifies(1) /\ Width(1) = 19 /\ Qualifies(2) /\ Width(2) = 13
    /\ restaurants_on_page[1].Phone = Cell(0, 19, 14)

\* ---- C13
\* The page and the row faults of the call with row k taken out.
Without(rows, k) ==
    [i \in 1..(Len(rows) - 1) |-> IF i < k THEN rows[i] ELSE rows[i + 1]]

FaultsWithout(k) ==
    { j \in row_faults.faulty : j < k } \cup
    { j - 1 : j \in { i \in row_faults.faulty : i > k } }

\* Row k is not entirely empty and its cell count is not a recognised one.
Unrecognised(k) == ~ AllEmpty(k) /\ Width(k) \notin RecognisedCounts

\* C13: a row that is not entirely empty and whose cell count is outside
\* {13,15,17,19,21} yields no record (no returned record holds a cell of it),
\* and the call returns what it returns for the page without that row.
C13_UnrecognisedRowYieldsNothing ==
    Returned =>
        \A k \in 1..Len(page_rows) :
            Unrecognised(k) =>
                /\ \A i \in 1..Len(restaurants_on_page), j \in 1..Width(k) :
                      restaurants_on_page[i].RestaurantName # page_rows[k].cells[j]
                /\ restaurants_on_page =
                      extract_page_data(Without(page_rows, k), row_faults.timedOut,
                                        FaultsWithout(k))

C13_Witness ==
    /\ Returned /\ Len(page_rows) = 2
    /\ Unrecognised(1) /\ Classified(1) /\ Width(1) = 14 /\ CellAt(1, 2) # 0 /\ CellAt(1, 3) # 0
    /\ Qualifies(2)
    /\ Len(restaurants_on_page) = 1
    /\ skipped_rows = 1

\* ---- C14
\* The documented records of rows k .. last, top to bottom.
RECURSIVE RecordsFrom(_)
RecordsFrom(k) ==
    IF k > Len(page_rows) THEN << >>
    ELSE (IF Qualifies(k) THEN << DocumentedRecord(k) >> ELSE << >>)
         \o RecordsFrom(k + 1)

\* C14: the list extract_page_data returns holds the records in the order of
\* the rows they come from, top to bottom, and a row whose class contains
\* "pager" contributes nothing, even when its cells fit a recognised layout:
\* the list is the one returned for the page without that row.
C14_RowOrderKeptPagerSkipped ==
    Returned =>
        /\ restaurants_on_page = RecordsFrom(1)
        /\ \A k \in 1..Len(page_rows) :
              "pager" \in page_rows[k].cls =>
                  restaurants_on_page =
                      extract_page_data(Without(page_rows, k), row_faults.timedOut,
                                        FaultsWithout(k))

C14_Witness ==
    /\ Returned /\ Len(page_rows) = 2
    /\ Qualifies(1) /\ Width(1) = 21 /\ Qualifies(2) /\ Width(2) = 15
    /\ restaurants_on_page[1].RestaurantName = Cell(0, 21, 11)
    /\ restaurants_on_page[2].RestaurantName = Cell(0, 15, 5)

\* A pager row whose cells fit the 13-column layout, above a data row.
C14_PagerWitness ==
    /\ Returned /\ Len(page_rows) = 2 /\ row_faults = NoFaults
    /\ "pager" \in page_rows[1].cls /\ Width(1) = 13 /\ ~ AllEmpty(1)
    /\ Qualifies(2)
    /\ Len(restaurants_on_page) = 1

\* ---- C15
\* Row k has a recognised cell count c and an empty cell at offset c-11
\* (name) or c-10 (address).
LacksNameOrAddress(k) ==
    /\ Width(k) \in RecognisedCounts
    /\ (CellAt(k, Width(k) - 11) = 0 \/ CellAt(k, Width(k) - 10) = 0)

\* C15: a row of a recognised cell count whose name cell or address cell is
\* empty yields no record, and a row whose cells are all empty yields no
\* record and no "unexpected column count" message, whatever its cell count:
\* every returned record has a name and an address, and the call returns (and
\* prints) what it does for the page without that row.
C15_IncompleteRowYieldsNothing ==
    Returned =>
        /\ \A i \in 1..Len(restaurants_on_page) :
              /\ restaurants_on_page[i].RestaurantName # 0
              /\ restaurants_on_page[i].Address # 0
        /\ \A k \in 1..Len(page_rows) :
              (LacksNameOrAddress(k) \/ AllEmpty(k)) =>
                  /\ restaurants_on_page =
                        extract_page_data(Without(page_rows, k), row_faults.timedOut,
                                          FaultsWithout(k))
                  /\ skipped_rows =
                        SkippedRows(Without(page_rows, k), row_faults.timedOut,
                                    FaultsWithout(k))

C15_Witness ==
    /\ Returned /\ Len(page_rows) = 2 /\ row_faults = NoFaults
    /\ Classified(1) /\ Width(1) = 17 /\ CellAt(1, 6) # 0 /\ CellAt(1, 7) = 0
    /\ Classified(2) /\ Width(2) = 14 /\ AllEmpty(2)
    /\ restaurants_on_page = << >>
    /\ skipped_rows = 0

Freedreams == prog = "freedreams"

\* C17: scrape_freedreams_hotels with max_pages = M >= 1 extracts at most M
\* pages, and the pages it extracts are 1..k in ascending order for some
\* k <= M; the first failure to reach or to read page k+1 ends the loop, and
\* no later page is attempted.
C17_FreedreamsContiguousPrefix ==
    (Freedreams /\ max_pages >= 1) =>
        /\ Len(extracted) <= max_pages
        /\ Counters = UpTo(Len(extracted))
        /\ Shown = UpTo(Len(extracted))
        /\ page >= 1 => page = Len(extracted) + 1
        /\ stop # "none" => LoopLeft
        /\ stop \in {"nav_timeout", "nav_stale", "nav_error", "no_hotels"} =>
              page <= max_pages

C17_Witness ==
    /\ Freedreams /\ pc = "done"
    /\ max_pages = 3 /\ numPages = 4
    /\ stop = "nav_stale"
    /\ Len(extracted) = 2 /\ page = 3
    /\ Len(all_hotels) = 4

\* ---- C18
\* C18: when the page number re-read after a confirmed ellipsis click is not
\* greater than current_page_number, the run ends as exhausted:
\* current_page_number keeps the value of the last extraction, no click and
\* no extraction follows, no exception is raised and the accumulated records
\* are what the CSV write gets.  The re-read number is adopted only when it
\* is greater.
C18_EllipsisWithoutProgressEndsRun ==
    /\ (Lunchcheck /\ stop = "ellipsis_no_progress") =>
          /\ LoopLeft /\ exc = "none"
          /\ serverPage <= current_page_number
          /\ current_page_number = LastExtract.counter
          /\ ~ pagination_advanced
          /\ iter.ellClicks = 1 /\ iter.linkClicks = 0
          /\ pc = "done" => /\ csv.rows = all_restaurants
                            /\ csv.written = (all_restaurants # << >>)
    /\ (Lunchcheck /\ pc = "seek_after_ell") =>
          /\ current_page_number = serverPage
          /\ current_page_number > LastExtract.counter

C18_Witness ==
    /\ Lunchcheck /\ pc = "done" /\ stop = "ellipsis_no_progress"
    /\ Len(extracted) = 2 /\ current_page_number = 2 /\ serverPage = 1
    /\ Delivered /\ Len(all_restaurants) >= 2

\* ---- C19
\* C19 (as claimed; refuted by the code): when re-reading the active page
\* indicator after an ellipsis click fails because its text is not a number,
\* the run of scrape_lunchcheck ends normally, as exhausted, with the
\* accumulated records delivered and no exception.
C19_RereadFailureEndsNormally ==
    (Lunchcheck /\ Ended /\ stop = "reread_failed" /\ exc # "Stale")
    => (pc = "done" /\ csv.rows = all_restaurants)

\* ---- C20
\* C20: current_page_number never decreases, and every pass of the while loop
\* that does not end the run increases it: whenever control comes back to the
\* top of the loop the counter is above the one of the last extraction, so
\* the counters at successive extract_page_data calls increase strictly and
\* none occurs twice.
C20_PageCounterIncreases ==
    [][ Lunchcheck =>
            /\ current_page_number' >= current_page_number
            /\ (pc' = "cap_check" /\ extracted # << >>) =>
                  current_page_number' > LastExtract.counter
            /\ (extracted' # extracted /\ extracted # << >>) =>
                  extracted'[Len(extracted')].counter > LastExtract.counter ]_vars

\* Three extractions with a two-link pager window: page 1, page 2 after a
\* confirmed click, page 3 after a confirmed ellipsis click.
C20_Witness ==
    /\ Lunchcheck /\ honest /\ window = 2 /\ numPages = 4
    /\ Counters = << 1, 2, 3 >>
    /\ pc = "seek_seq"

\* ---- C21
\* C21: in the click loop current_page_number moves by exactly one, and only
\* when the click was followed by the staleness of the old table, the
\* presence of the table and the presence of its rows, in that order; when
\* one of them is not observed, or nothing is clicked, the counter stays.
C21_CounterMovesOnConfirmedClick ==
    [][ (Lunchcheck /\ pc = "click") =>
            IF /\ iter'.linkClicks = iter.linkClicks + 1
               /\ iter'.confirmations = ConfirmationWaits
               /\ iter'.clickErrors = iter.clickErrors
            THEN /\ current_page_number' = current_page_number + 1
                 /\ pagination_advanced'
                 /\ pc' = "cap_check"
            ELSE /\ current_page_number' = current_page_number
                 /\ ~ pagination_advanced'
                 /\ pc' # "cap_check" ]_vars

\* A click whose table came back without its rows (two of the three waits
\* seen) left the counter at 1 and ended the run; page 2 is displayed.
C21_Witness ==
    /\ Lunchcheck /\ pc = "done" /\ stop = "not_advanced"
    /\ iter.linkClicks = 1 /\ iter.confirmations = 2
    /\ current_page_number = 1 /\ serverPage = 2
    /\ Counters = << 1 >>

\* ---- C22
\* C22: within one pass of the while loop the sequential link is clicked at
\* most 3 times, each click coming after a re-location of the link of its own
\* attempt, the ellipsis is clicked at most once, and extract_page_data is
\* called exactly once: it is entered only from the top of the loop, and no
\* step but that call adds to the extractions.
C22_RetriesBoundedPerIteration ==
    [][ Lunchcheck =>
            /\ iter'.relocations <= 3
            /\ iter'.linkClicks <= iter'.relocations
            /\ iter'.linkClicks - iter.linkClicks <= iter'.relocations - iter.relocations
                  \/ pc = "extract"
            /\ iter'.ellClicks <= 1
            /\ pc' = "extract" => pc = "cap_check"
            /\ pc = "extract" => /\ Len(extracted') = Len(extracted) + 1
                                 /\ iter' = NoIter
            /\ pc # "extract" => extracted' = extracted ]_vars

\* Three passes of the click loop in one iteration: two stale references,
\* then a confirmed click.
C22_Witness ==
    /\ Lunchcheck /\ pc = "cap_check"
    /\ iter.relocations = 3 /\ iter.clickStales = 2 /\ iter.linkClicks = 1
    /\ iter.confirmations = ConfirmationWaits
    /\ current_page_number = LastExtract.counter + 1

\* ---- C23
\* The navigator has given up: no link and no ellipsis, ellipsis without
\* progress, link still missing after the ellipsis, or click attempts
\* abandoned.
Exhausted ==
    stop \in {"no_ellipsis", "ellipsis_no_progress", "no_link_after_ellipsis",
              "not_advanced"}

\* C23: once the navigator has given up, the run of scrape_lunchcheck makes
\* no further link search, click or extraction: the only steps left are the
\* finally block and the CSV write.
C23_ExhaustedIsTerminal ==
    [][ (Lunchcheck /\ Exhausted) =>
            /\ pc \in {"finally", "write"}
            /\ pc' \in {"write", "done"}
            /\ iter' = iter
            /\ extracted' = extracted
            /\ serverPage' = serverPage
            /\ current_page_number' = current_page_number
            /\ all_restaurants' = all_restaurants
            /\ stop' = stop ]_vars

\* The link after the adopted ellipsis jump was missing; the run then ended
\* with the records of two extractions written.
C23_Witness ==
    /\ Lunchcheck /\ pc = "done" /\ stop = "no_link_after_ellipsis"
    /\ iter.ellClicks = 1 /\ iter.seqSearches = 2
    /\ Len(extracted) = 2 /\ Delivered

\* ---- C24
\* C24: with max_pages = M >= 1, in every reachable state of scrape_lunchcheck
\* at most M calls of extract_page_data have been made, whatever page the run
\* started on and whatever the server did (missed links, ellipsis jumps to
\* any page, unconfirmed clicks), and no call was made with
\* current_page_number above M.
C24_CapBoundsExtractions ==
    (Lunchcheck /\ max_pages >= 1) =>
        /\ Len(extracted) <= max_pages
        /\ \A i \in 1..Len(extracted) : extracted[i].counter <= max_pages
        /\ pc = "extract" => current_page_number <= max_pages

\* Started on page 2 with M = 3: pages 2 and 3 were extracted and the cap
\* check then ended the loop.
C24_Witness ==
    /\ Lunchcheck /\ max_pages = 3 /\ stop = "cap_reached"
    /\ Counters = << 2, 3 >> /\ Shown = << 2, 3 >>
    /\ current_page_number = 4

\* ---- C25
IsPrefix(s, t) == Len(s) <= Len(t) /\ SubSeq(t, 1, Len(s)) = s

\* The page a record was read from.
PageOf(record) == record.RestaurantName \div 1000

\* C25: the accumulator of scrape_lunchcheck is append-only.  In every step
\* the old value of all_restaurants is a prefix of the new one; what an
\* extraction adds are records of the page displayed at that extraction, so
\* the records of an earlier extraction come before those of a later one;
\* and every step that is not an extraction, a failed advance included,
\* leaves the accumulator as it was.
C25_AccumulatorAppendOnly ==
    [][ Lunchcheck =>
            /\ IsPrefix(all_restaurants, all_restaurants')
            /\ pc # "extract" => all_restaurants' = all_restaurants
            /\ \A i \in (Len(all_restaurants) + 1)..Len(all_restaurants') :
                  PageOf(all_restaurants'[i]) = serverPage ]_vars

\* Pages 1 and 2 were extracted, then the click for page 3 was abandoned:
\* the accumulator holds the records of page 1 followed by those of page 2.
C25_Witness ==
    /\ Lunchcheck /\ pc = "finally" /\ stop = "not_advanced"
    /\ Counters = << 1, 2 >> /\ Shown = << 1, 2 >>
    /\ all_restaurants = RecordsOfPages(1, 2)

\* ---- C26
\* C26: given that every wait returns or times out, every run of
\* scrape_lunchcheck leaves its while loop, be it capped (max_pages >= 1) or
\* not (the source has finitely many pages): it cannot go from page to page
\* or click the ellipsis for ever.
C26_RunLeavesLoop == (Lunchcheck /\ pc = "setup") ~> (Lunchcheck /\ LoopLeft)

\* An uncapped run over the largest source with the widest pager window
\* left the loop in the iteration that clicked the ellipsis, after one
\* extraction for each page of the first window.
C26_Witness ==
    /\ Lunchcheck /\ LoopLeft /\ max_pages = -1 /\ honest
    /\ numPages = MaxPages /\ window = MaxWindow
    /\ Len(extracted) = MaxWindow
    /\ iter.ellClicks = 1

\* ---- C27
\* C27: when, from page n, neither the link n+1 nor the ellipsis link is
\* found, the run ends as exhausted after page n was extracted: the loop is
\* left without an exception, nothing was clicked in that iteration, the
\* counter is still n, the page extracted last is the one counted n, and the
\* accumulated records (those of pages 1..n in a run that started on page 1
\* and met no fault) are what the CSV write delivers.
C27_NoLinkNoEllipsisEndsRun ==
    (Lunchcheck /\ stop = "no_ellipsis" /\ iter.ellSearches = 1 /\ iter.ellClicks = 0)
    => /\ LoopLeft /\ exc = "none"
       /\ iter.seqSearches = 1
       /\ iter.linkClicks = 0 /\ iter.relocations = 0
       /\ extracted # << >>
       /\ current_page_number = LastExtract.counter
       /\ ~pagination_advanced
       /\ (honest /\ StartedAtOne)
             => all_restaurants = RecordsOfPages(1, current_page_number)
       /\ pc = "done" => csv.rows = all_restaurants

\* Two of two pages were extracted, neither link 3 nor an ellipsis was found,
\* and the records of both pages were written.
C27_Witness ==
    /\ Lunchcheck /\ pc = "done" /\ stop = "no_ellipsis"
    /\ iter.ellSearches = 1 /\ iter.ellClicks = 0 /\ iter.linkClicks = 0
    /\ numPages = 2 /\ current_page_number = 2 /\ Counters = << 1, 2 >>
    /\ csv.written /\ csv.rows = RecordsOfPages(1, 2)

\* ---- C28
\* C28 (as claimed; refuted by the code): the discovery of the starting page
\* sets current_page_number to the number the pager's active-page span shows,
\* or to 1 when the span is absent or its text is no number, and whatever
\* goes wrong there the run goes on to the loop with no exception in flight.
C28_DiscoveryNeverAborts ==
    [][(Lunchcheck /\ pc = "discover")
         => /\ pc' = "cap_check" /\ exc' = "none" /\ stop' = "none"
            /\ current_page_number' \in {serverPage, 1}
            /\ honest' => current_page_number' = serverPage]_vars

\* ---- C29
\* C29: when the page-size control already has "500" selected, nothing is
\* selected and the waits for the refreshed page are not entered; in a run
\* "500" is selected at most once, and only after a value other than "500"
\* was read from the control.
C29_PageSizeChangedOnlyWhenDifferent ==
    Lunchcheck
    => /\ page_size_selects <= 1
       /\ current_selection_value = "500"
             => (page_size_selects = 0 /\ pc # "page_size_refresh")
       /\ page_size_selects = 1
             => current_selection_value \in SelectionValues \ {"500"}
       /\ pc = "page_size_refresh" => page_size_selects = 1
       /\ current_selection_value = "none"
             => (page_size_selects = 0 /\ pc # "page_size_refresh")

\* A run that read "500" from the control went on without a change and
\* extracted two pages.
C29_Witness ==
    /\ Lunchcheck /\ current_selection_value = "500" /\ page_size_selects = 0
    /\ honest /\ pc = "done" /\ Counters = << 1, 2 >>

\* A run that read another value selected "500" once and is waiting for the
\* refreshed page.
C29_ChangeWitness ==
    /\ Lunchcheck /\ current_selection_value = "20" /\ page_size_selects = 1
    /\ pc = "page_size_refresh"

\* ---- C30
\* C30: a row whose processing raises (stale reference, missing element, any
\* other error) is dropped and nothing else is: the call returns normally,
\* every other row that qualifies has its record at its rank among the
\* qualifying rows, and the list returned is the one returned for the page
\* without the faulty row.
C30_RowFaultDropsOnlyThatRow ==
    Returned =>
        /\ exc = "none"
        /\ \A k \in row_faults.faulty :
              /\ Len(restaurants_on_page)
                    = Cardinality({ j \in 1..Len(page_rows) : Qualifies(j) })
              /\ \A j \in (1..Len(page_rows)) \ {k} :
                    Qualifies(j) => restaurants_on_page[Rank(j)] = DocumentedRecord(j)
              /\ restaurants_on_page
                    = extract_page_data(Without(page_rows, k), row_faults.timedOut,
                                        FaultsWithout(k))

\* The first of two complete rows raised; the call returned the record of
\* the second alone.
C30_Witness ==
    /\ Returned /\ Len(page_rows) = 2 /\ row_faults.faulty = {1}
    /\ page_rows[1] = RawRow(13, "full", {})
    /\ page_rows[2] = RawRow(15, "full", {})
    /\ restaurants_on_page = << DocumentedRecord(2) >>

\* ---- C31
\* C31: in a run of scrape_lunchcheck whose first extract_page_data call had
\* the counter equal to the page displayed (the starting page was read from
\* the pager), every extract_page_data call has current_page_number equal to
\* the page the server displays at the call, and a click step that raises the
\* counter is one after which another page, the one counted, is displayed.
C31_CounterTracksDisplayedPage ==
    [][Lunchcheck
         => /\ (extracted' # << >> /\ extracted'[1].counter = extracted'[1].shown)
                 => \A i \in 1..Len(extracted') :
                       extracted'[i].counter = extracted'[i].shown
            /\ (pc = "click" /\ current_page_number' # current_page_number)
                 => /\ serverPage' # serverPage
                    /\ serverPage' = current_page_number']_vars

\* The second call extracted page 3 with the counter at 3, after an ellipsis
\* click that landed two pages on; the third followed a confirmed click.
C31_Witness ==
    /\ Lunchcheck /\ Counters = << 1, 3, 4 >> /\ Shown = << 1, 3, 4 >>
    /\ LoopLeft

\* ---- C32
\* C32 (as claimed; refuted by the code): with max_pages = -1 and no failed
\* wait, a run that ended after a confirmed ellipsis click took it to a page m
\* beyond the counter has extracted page m: the last extract_page_data call
\* was made with the counter at m and page m displayed.
C32_EllipsisLandingExtracted ==
    (Lunchcheck /\ max_pages = -1 /\ honest /\ pc = "done"
       /\ iter.ellClicks = 1 /\ pagination_advanced)
    => /\ LastExtract.counter = current_page_number
       /\ LastExtract.shown = serverPage

\* ---- C33
\* C33: from the ellipsis click that advanced the run to the next
\* extract_page_data call, no sequential link is re-located or clicked and
\* the displayed page does not change: the call is made with the page the
\* ellipsis click reached on display, and the counter at its number.
C33_NoLinkClickAfterEllipsisAdvance ==
    [][(Lunchcheck /\ iter.ellClicks = 1 /\ pagination_advanced)
         => /\ pc # "click" /\ pc' # "click"
            /\ iter.relocations = 0 /\ iter.linkClicks = 0
            /\ serverPage = current_page_number
            /\ serverPage' = serverPage
            /\ pc = "extract"
                 => /\ extracted'[Len(extracted')].shown = serverPage
                    /\ extracted'[Len(extracted')].counter = current_page_number]_vars

\* Page 3 of a pager with two links to a window was extracted after pages 1
\* and 2: it was reached by the ellipsis click alone.
C33_Witness ==
    /\ Lunchcheck /\ honest /\ window = 2 /\ pc = "seek_seq"
    /\ Shown = << 1, 2, 3 >> /\ Counters = << 1, 2, 3 >>

\* ---- C34
\* The items of hotels at the positions outside faulty, in their order.
KeptHotels(hotels, faulty) ==
    LET kept == { k \in 1..Len(hotels) : k \notin faulty }
        at(i) == CHOOSE k \in kept : Cardinality({ j \in kept : j <= k }) = i
    IN  [i \in 1..Cardinality(kept) |-> hotels[at(i)]]

\* C34: in scrape_freedreams_hotels, once the browser is started no exception
\* leaves the function, whatever fails between driver.get and the end of the
\* page loop; all_hotels only grows at its end; a page adds exactly its items
\* whose parsing did not raise, in their order; and the hotels accumulated
\* when the loop ends are what is written.
C34_FreedreamsKeepsHotels ==
    [][Freedreams
         => /\ session' # "none" => (exc' = "none" /\ pc' # "raised")
            /\ IsPrefix(all_hotels, all_hotels')
            /\ (pc = "hotels" /\ pc' = "page_loop")
                 => all_hotels' = all_hotels \o
                       KeptHotels(HotelItems(serverPage), row_faults'.faulty)
            /\ pc # "hotels" => all_hotels' = all_hotels
            /\ pc' = "done"
                 => /\ csv'.rows = all_hotels'
                    /\ csv'.written = (all_hotels' # << >>)]_vars

\* Page 1 lost its first item to a parse failure, page 2 was read whole, the
\* items of page 3 never came; the three hotels were written.
C34_Witness ==
    /\ Freedreams /\ pc = "done" /\ stop = "no_hotels"
    /\ Shown = << 1, 2 >> /\ page = 3
    /\ csv.written /\ csv.rows = << 12, 21, 22 >>

\* ---- C35
\* The hotels of pages lo .. hi, none lost.
RECURSIVE HotelsOfPages(_, _)
HotelsOfPages(lo, hi) ==
    IF lo > hi THEN << >> ELSE HotelItems(lo) \o HotelsOfPages(lo + 1, hi)

\* C35: scrape_freedreams_hotels called with max_pages = -1 sets the page
\* bound to the page count the pager gives (the last pager item, else the
\* largest numeric page link) and to 1 when the pager is absent, gives no
\* number or cannot be read; a bound given by the caller is kept; and a run
\* whose bound is the page count and that met no failure extracts every page
\* once, in order, and ends because the range is used up.
C35_FreedreamsAllPages ==
    [][Freedreams
         => /\ pc = "max_pages"
                 => IF max_pages = -1
                    THEN /\ max_pages' \in {1, numPages}
                         /\ honest' => max_pages' = numPages
                         /\ ~ honest' => max_pages' = 1
                    ELSE max_pages' = max_pages
            /\ pc # "max_pages" => max_pages' = max_pages
            /\ (honest' /\ pc' = "done" /\ max_pages' = numPages)
                 => /\ Shown' = UpTo(numPages) /\ Counters' = UpTo(numPages)
                    /\ stop' = "range_done"
                    /\ all_hotels' = HotelsOfPages(1, numPages)
                    /\ csv'.rows = all_hotels']_vars

\* The bound was read as 4 (more than a caller's bound of the model can be)
\* from a 4-page source and all four pages were scraped and written.
C35_Witness ==
    /\ Freedreams /\ honest /\ pc = "done"
    /\ numPages = MaxPages /\ max_pages = MaxPages /\ MaxPages > MaxCap
    /\ Shown = UpTo(MaxPages)
    /\ csv.written /\ Len(csv.rows) = 2 * MaxPages

\* ---- C36
\* The lunchcheck rows that make a match with the hotel name: the name of
\* the row is not empty and its score against the hotel name is at least the
\* minimum; none when the hotel name is empty.
MatchingRows(hotel_name) ==
    IF hotel_name = {} THEN {}
    ELSE { k \in 1..Len(df_lunchcheck) :
              /\ df_lunchcheck[k] # {}
              /\ token_set_ratio(hotel_name, df_lunchcheck[k]) >= restaurant_match_score }

\* One match for each of these rows, in the order of the rows.
MatchesOfRow(hotel_name) ==
    LET rows == MatchingRows(hotel_name)
        at(n) == CHOOSE k \in rows : Cardinality({ j \in rows : j <= k }) = n
    IN  [n \in 1..Cardinality(rows) |->
            [freedreams_hotel_name |-> hotel_name,
             lunchcheck_restaurant_name |-> df_lunchcheck[at(n)],
             Match_Score |-> token_set_ratio(hotel_name, df_lunchcheck[at(n)])]]

\* The matches of the freedreams rows 1 .. n.
RECURSIVE MatchesUpTo(_)
MatchesUpTo(n) ==
    IF n = 0 THEN << >>
    ELSE MatchesUpTo(n - 1) \o MatchesOfRow(freedreams_df[n])

====
